---------------------------- MODULE Spec2Model ----------------------------
(***************************************************************************)
(* State-machine model of the simulation core of                           *)
(* src/src/components/ArcadeShooter.tsx: generateWave, initWave,           *)
(* resetGame, spawnExplosion, checkCollision, the gameLoop frame callback  *)
(* and the keyboard handlers.  Drawing code is left out: it reads the      *)
(* state and never writes it.                                              *)
(*                                                                         *)
(* Numbers.  Every coordinate, width, height and speed is held in units    *)
(* of 1/SUB pixel, so that the enemy speed 1 + level * 0.15 is the integer *)
(* SUB + 3 * level and all arithmetic of the source is exact integer       *)
(* arithmetic here (the source computes in IEEE doubles; rounding error of *)
(* the repeated additions is not modelled).  Explosion alpha is held in    *)
(* hundredths.  Enemy.hitFlash (a drawing hint that no update rule reads)  *)
(* and GameState.paused (never read or written after construction) are    *)
(* not modelled.                                                           *)
(***************************************************************************)
EXTENDS Integers, Sequences, FiniteSets, TLC

\* ------------------------------------------------------------ constants
SUB == 20

CANVAS_WIDTH == 600
CANVAS_HEIGHT == 700
PLAYER_WIDTH == 40
PLAYER_HEIGHT == 30
PLAYER_SPEED == 8
BULLET_SPEED == 12
BULLET_WIDTH == 4
BULLET_HEIGHT == 12
ENEMY_WIDTH == 36
ENEMY_HEIGHT == 28
SHOOT_COOLDOWN == 150
INITIAL_LIVES == 3

\* generateWave's local constants
spacing == 60
startY == 60
rowSpacing == 50

\* gameLoop's literals
PLAYER_MARGIN == 10
ENEMY_MARGIN == 10
DROP == 20
BREACH_OFFSET == 100
TRANSITION_MS == 2000
TRANSITION_STEP == 16
KILL_SCORE == 100

Min(a, b) == IF a < b THEN a ELSE b
Max(a, b) == IF a > b THEN a ELSE b

\* ------------------------------------------------------------ generateWave
baseEnemies(level) == 4 + ((level * 3) \div 2)
waveRows(level) == Min(2 + (level \div 3), 4)
waveCols(level) == (baseEnemies(level) + waveRows(level) - 1) \div waveRows(level)
startX(level) == ((CANVAS_WIDTH - (waveCols(level) - 1) * spacing) * SUB) \div 2

\* Mutant of WaveEnemy: every other row starts out to the left.
WaveEnemySnake(level, row, col) ==
    [ x         |-> startX(level) + col * spacing * SUB,
      y         |-> (startY + row * rowSpacing) * SUB,
      width     |-> ENEMY_WIDTH * SUB,
      height    |-> ENEMY_HEIGHT * SUB,
      type      |-> row % 3,
      health    |-> 1 + (level \div 4),
      speed     |-> SUB + 3 * level,
      direction |-> IF row % 2 = 0 THEN 1 ELSE -1 ]

\* One enemy of the formation (Omit<Enemy, 'active' | 'hitFlash'>).
WaveEnemy(level, row, col) ==
    [ x         |-> startX(level) + col * spacing * SUB,
      y         |-> (startY + row * rowSpacing) * SUB,
      width     |-> ENEMY_WIDTH * SUB,
      height    |-> ENEMY_HEIGHT * SUB,
      type      |-> row % 3,
      health    |-> 1 + (level \div 4),
      speed     |-> SUB + 3 * level,
      direction |-> 1 ]

\* Mutant of WaveLoop: the length test does not end the row.
RECURSIVE WaveLoopNoBreak(_, _, _, _)
WaveLoopNoBreak(level, row, col, acc) ==
    IF row >= waveRows(level) THEN acc
    ELSE IF col >= waveCols(level) THEN WaveLoopNoBreak(level, row + 1, 0, acc)
    ELSE WaveLoopNoBreak(level, row, col + 1, Append(acc, WaveEnemy(level, row, col)))

\* The two nested for loops; `break` leaves the inner loop only.
RECURSIVE WaveLoop(_, _, _, _)
WaveLoop(level, row, col, acc) ==
    IF row >= waveRows(level) THEN acc
    ELSE IF col >= waveCols(level) THEN WaveLoop(level, row + 1, 0, acc)
    ELSE IF Len(acc) >= baseEnemies(level) THEN WaveLoop(level, row + 1, 0, acc)
    ELSE WaveLoop(level, row, col + 1, Append(acc, WaveEnemy(level, row, col)))

generateWave(level) == WaveLoop(level, 0, 0, << >>)

\* ------------------------------------------------------------ initWave, resetGame
Activate(e) ==
    [ x |-> e.x, y |-> e.y, width |-> e.width, height |-> e.height,
      type |-> e.type, health |-> e.health, speed |-> e.speed,
      direction |-> e.direction, active |-> TRUE ]

\* Mutant of initWave: the wave is added to the pool instead of replacing it.
initWaveAppend(s, level) ==
    LET waveData == generateWave(level)
    IN  [ s EXCEPT !.enemies = @ \o [ i \in 1..Len(waveData) |-> Activate(waveData[i]) ],
                   !.levelComplete = FALSE,
                   !.levelTransition = FALSE ]

initWave(s, level) ==
    LET waveData == generateWave(level)
    IN  [ s EXCEPT !.enemies = [ i \in 1..Len(waveData) |-> Activate(waveData[i]) ],
                   !.levelComplete = FALSE,
                   !.levelTransition = FALSE ]

resetGame(s) ==
    initWave([ s EXCEPT !.player.x = ((CANVAS_WIDTH * SUB) \div 2) - ((PLAYER_WIDTH * SUB) \div 2),
                        !.bullets = << >>,
                        !.explosions = << >>,
                        !.score = 0,
                        !.lives = INITIAL_LIVES,
                        !.level = 1,
                        !.gameOver = FALSE,
                        !.levelComplete = FALSE,
                        !.levelTransition = FALSE,
                        !.started = TRUE ], 1)

\* ------------------------------------------------------------ helpers
spawnExplosion(s, x, y, size, color) ==
    [ s EXCEPT !.explosions = Append(@, [ x |-> x, y |-> y, radius |-> 5,
                                           maxRadius |-> size, alpha |-> 100,
                                           color |-> color ]) ]

checkCollision(a, b) ==
    /\ a.x < b.x + b.width
    /\ a.x + a.width > b.x
    /\ a.y < b.y + b.height
    /\ a.y + a.height > b.y

\* The value of gameStateRef at construction.
InitialGameState ==
    [ player |-> [ x |-> ((CANVAS_WIDTH * SUB) \div 2) - ((PLAYER_WIDTH * SUB) \div 2),
                   y |-> (CANVAS_HEIGHT - PLAYER_HEIGHT - 20) * SUB,
                   width |-> PLAYER_WIDTH * SUB,
                   height |-> PLAYER_HEIGHT * SUB ],
      bullets |-> << >>,
      enemies |-> << >>,
      explosions |-> << >>,
      score |-> 0,
      lives |-> INITIAL_LIVES,
      level |-> 1,
      gameOver |-> FALSE,
      levelComplete |-> FALSE,
      levelTransition |-> FALSE,
      transitionTimer |-> 0,
      started |-> FALSE ]

\* The branch of gameLoop that a state is dispatched to.
Mode(s) ==
    IF ~s.started THEN "NotStarted"
    ELSE IF s.gameOver THEN "GameOver"
    ELSE IF s.levelTransition THEN "LevelTransition"
    ELSE "Playing"


\* ------------------------------------------------------------ gameLoop, Playing branch
MoveLeftHeld(keys) == "ArrowLeft" \in keys \/ "a" \in keys
MoveRightHeld(keys) == "ArrowRight" \in keys \/ "d" \in keys

\* Mutant of Fires: the cooldown is not consulted.
FiresNoCooldown(keys, ready) == " " \in keys

\* `ready` is the value of now - lastShootRef.current > SHOOT_COOLDOWN.
Fires(keys, ready) == " " \in keys /\ ready

\* Mutant of MoveLeft: no clamp at the left margin.
MoveLeftUnclamped(s) ==
    [ s EXCEPT !.player.x = @ - PLAYER_SPEED * SUB ]

MoveLeft(s) ==
    [ s EXCEPT !.player.x = Max(PLAYER_MARGIN * SUB, @ - PLAYER_SPEED * SUB) ]

MoveRight(s) ==
    [ s EXCEPT !.player.x = Min((CANVAS_WIDTH - PLAYER_WIDTH - PLAYER_MARGIN) * SUB,
                                @ + PLAYER_SPEED * SUB) ]

PushBullet(s) ==
    [ s EXCEPT !.bullets = Append(@,
        [ x |-> s.player.x + ((PLAYER_WIDTH * SUB) \div 2) - ((BULLET_WIDTH * SUB) \div 2),
          y |-> s.player.y,
          width |-> BULLET_WIDTH * SUB,
          height |-> BULLET_HEIGHT * SUB,
          active |-> TRUE ]) ]

HandleInput(s, keys, ready) ==
    LET s1 == IF MoveLeftHeld(keys) THEN MoveLeft(s) ELSE s
        s2 == IF MoveRightHeld(keys) THEN MoveRight(s1) ELSE s1
    IN  IF Fires(keys, ready) THEN PushBullet(s2) ELSE s2

\* Mutant of BulletKept: a bullet stays until it has left the field, spent or not.
BulletKeptSpent(b) == b.y > -(BULLET_HEIGHT * SUB)

BulletKept(b) == b.y > -(BULLET_HEIGHT * SUB) /\ b.active

UpdateBullets(s) ==
    LET moved == [ i \in 1..Len(s.bullets) |->
                     [ s.bullets[i] EXCEPT !.y = @ - BULLET_SPEED * SUB ] ]
    IN  [ s EXCEPT !.bullets = SelectSeq(moved, BulletKept) ]

AtEdge(e) ==
    e.x <= ENEMY_MARGIN * SUB \/ e.x >= (CANVAS_WIDTH - ENEMY_WIDTH - ENEMY_MARGIN) * SUB

\* Mutant of Bounce: the formation turns without dropping.
BounceNoDrop(e) == [ e EXCEPT !.direction = @ * (-1) ]

Bounce(e) == [ e EXCEPT !.direction = @ * (-1), !.y = @ + DROP * SUB ]

\* Mutant of UpdateEnemies: only the enemies at an edge turn and drop.
UpdateEnemiesEdgeOnly(s) ==
    LET moved == [ i \in 1..Len(s.enemies) |->
                     IF s.enemies[i].active
                     THEN [ s.enemies[i] EXCEPT !.x = @ + s.enemies[i].speed * s.enemies[i].direction ]
                     ELSE s.enemies[i] ]
    IN  [ s EXCEPT !.enemies =
            [ i \in 1..Len(moved) |->
                IF moved[i].active /\ AtEdge(moved[i]) THEN Bounce(moved[i]) ELSE moved[i] ] ]

UpdateEnemies(s) ==
    LET moved == [ i \in 1..Len(s.enemies) |->
                     IF s.enemies[i].active
                     THEN [ s.enemies[i] EXCEPT !.x = @ + s.enemies[i].speed * s.enemies[i].direction ]
                     ELSE s.enemies[i] ]
        hitEdge == \E i \in 1..Len(moved) : moved[i].active /\ AtEdge(moved[i])
    IN  [ s EXCEPT !.enemies =
            IF hitEdge
            THEN [ i \in 1..Len(moved) |-> IF moved[i].active THEN Bounce(moved[i]) ELSE moved[i] ]
            ELSE moved ]

\* Mutant of BulletHit: a kill scores 100 whatever the level.
BulletHitFlatScore(s, i, j) ==
    LET b  == s.bullets[i]
        e  == s.enemies[j]
        s1 == [ s EXCEPT !.bullets[i].active = FALSE,
                         !.enemies[j].health = @ - 1 ]
    IN  IF s1.enemies[j].health <= 0
        THEN spawnExplosion([ s1 EXCEPT !.enemies[j].active = FALSE,
                                        !.score = @ + KILL_SCORE ],
                            e.x + ((ENEMY_WIDTH * SUB) \div 2),
                            e.y + ((ENEMY_HEIGHT * SUB) \div 2), 35, "#ff00ff")
        ELSE spawnExplosion(s1, b.x, b.y, 15, "#ffff00")

\* The body of `if (checkCollision(bullet, enemy))` for bullet i and enemy j.
BulletHit(s, i, j) ==
    LET b  == s.bullets[i]
        e  == s.enemies[j]
        s1 == [ s EXCEPT !.bullets[i].active = FALSE,
                         !.enemies[j].health = @ - 1 ]
    IN  IF s1.enemies[j].health <= 0
        THEN spawnExplosion([ s1 EXCEPT !.enemies[j].active = FALSE,
                                        !.score = @ + KILL_SCORE * s1.level ],
                            e.x + ((ENEMY_WIDTH * SUB) \div 2),
                            e.y + ((ENEMY_HEIGHT * SUB) \div 2), 35, "#ff00ff")
        ELSE spawnExplosion(s1, b.x, b.y, 15, "#ffff00")

\* state.enemies.forEach inside the bullet callback, from enemy j on.
RECURSIVE BulletEnemyInner(_, _, _)
BulletEnemyInner(s, i, j) ==
    IF j > Len(s.enemies) THEN s
    ELSE IF ~s.enemies[j].active THEN BulletEnemyInner(s, i, j + 1)
    ELSE IF checkCollision(s.bullets[i], s.enemies[j])
         THEN BulletEnemyInner(BulletHit(s, i, j), i, j + 1)
         ELSE BulletEnemyInner(s, i, j + 1)

\* state.bullets.forEach, from bullet i on.
RECURSIVE BulletEnemyOuter(_, _)
BulletEnemyOuter(s, i) ==
    IF i > Len(s.bullets) THEN s
    ELSE IF ~s.bullets[i].active THEN BulletEnemyOuter(s, i + 1)
    ELSE BulletEnemyOuter(BulletEnemyInner(s, i, 1), i + 1)

BulletEnemyCollision(s) == BulletEnemyOuter(s, 1)

\* Mutant of Breached: the breach line is 50 above the bottom instead of 100.
BreachedLow(e) == e.y > (CANVAS_HEIGHT - 50) * SUB

Breached(e) == e.y > (CANVAS_HEIGHT - BREACH_OFFSET) * SUB

\* Mutant of PlayerHit: the game ends only once lives is below 0.
PlayerHitLate(s, j) ==
    LET s1 == [ s EXCEPT !.enemies[j].active = FALSE, !.lives = @ - 1 ]
        s2 == spawnExplosion(s1, s.player.x + ((PLAYER_WIDTH * SUB) \div 2),
                             s.player.y + ((PLAYER_HEIGHT * SUB) \div 2), 50, "#ff0044")
    IN  IF s2.lives < 0 THEN [ s2 EXCEPT !.gameOver = TRUE ] ELSE s2

\* The body of `if (checkCollision(state.player, enemy))` for enemy j.
PlayerHit(s, j) ==
    LET s1 == [ s EXCEPT !.enemies[j].active = FALSE, !.lives = @ - 1 ]
        s2 == spawnExplosion(s1, s.player.x + ((PLAYER_WIDTH * SUB) \div 2),
                             s.player.y + ((PLAYER_HEIGHT * SUB) \div 2), 50, "#ff0044")
    IN  IF s2.lives <= 0 THEN [ s2 EXCEPT !.gameOver = TRUE ] ELSE s2

\* Mutant of PlayerEnemyOne: an enemy past the breach line costs a life too.
PlayerEnemyOneBreachHurts(s, j) ==
    LET e == s.enemies[j]
    IN  IF ~e.active THEN s
        ELSE IF checkCollision(s.player, e) \/ Breached(e) THEN PlayerHit(s, j)
        ELSE s

\* Mutant of PlayerEnemyOne: an enemy past the breach line is removed without
\* the player test.
PlayerEnemyOneBreachFirst(s, j) ==
    LET e == s.enemies[j]
    IN  IF ~e.active THEN s
        ELSE IF Breached(e) THEN [ s EXCEPT !.enemies[j].active = FALSE ]
        ELSE IF checkCollision(s.player, e) THEN PlayerHit(s, j)
        ELSE s

\* The callback of the player-enemy forEach for enemy j.
PlayerEnemyOne(s, j) ==
    LET e == s.enemies[j]
    IN  IF ~e.active THEN s
        ELSE IF checkCollision(s.player, e) \/ Breached(e)
        THEN LET s1 == IF Breached(e) THEN [ s EXCEPT !.enemies[j].active = FALSE ] ELSE s
             IN  IF checkCollision(s1.player, s1.enemies[j]) THEN PlayerHit(s1, j) ELSE s1
        ELSE s

RECURSIVE PlayerEnemyLoop(_, _)
PlayerEnemyLoop(s, j) ==
    IF j > Len(s.enemies) THEN s ELSE PlayerEnemyLoop(PlayerEnemyOne(s, j), j + 1)

PlayerEnemyCollision(s) == PlayerEnemyLoop(s, 1)

activeEnemies(s) == Cardinality({ j \in 1..Len(s.enemies) : s.enemies[j].active })

CheckWaveComplete(s) ==
    IF activeEnemies(s) = 0 /\ ~s.levelComplete /\ ~s.levelTransition
    THEN [ s EXCEPT !.levelComplete = TRUE,
                    !.levelTransition = TRUE,
                    !.transitionTimer = TRANSITION_MS ]
    ELSE s

ExplosionKept(exp) == exp.alpha > 0

UpdateExplosions(s) ==
    LET grown == [ i \in 1..Len(s.explosions) |->
                     [ s.explosions[i] EXCEPT !.radius = @ + 2, !.alpha = @ - 4 ] ]
    IN  [ s EXCEPT !.explosions = SelectSeq(grown, ExplosionKept) ]

PlayingFrame(s, keys, ready) ==
    UpdateExplosions(
      CheckWaveComplete(
        PlayerEnemyCollision(
          BulletEnemyCollision(
            UpdateEnemies(
              UpdateBullets(
                HandleInput(s, keys, ready)))))))

\* ------------------------------------------------------------ gameLoop, other branches
\* Mutant of TransitionFrame: the wave is generated before the level is raised.
TransitionFrameStaleWave(s) ==
    LET s1 == [ s EXCEPT !.transitionTimer = @ - TRANSITION_STEP ]
    IN  IF s1.transitionTimer <= 0
        THEN [ initWave(s1, s1.level) EXCEPT !.level = @ + 1 ]
        ELSE s1

\* Mutant of TransitionFrame: the level is lowered instead of raised.
TransitionFrameDown(s) ==
    LET s1 == [ s EXCEPT !.transitionTimer = @ - TRANSITION_STEP ]
    IN  IF s1.transitionTimer <= 0
        THEN initWave([ s1 EXCEPT !.level = @ - 1 ], s1.level - 1)
        ELSE s1

TransitionFrame(s) ==
    LET s1 == [ s EXCEPT !.transitionTimer = @ - TRANSITION_STEP ]
    IN  IF s1.transitionTimer <= 0
        THEN initWave([ s1 EXCEPT !.level = @ + 1 ], s1.level + 1)
        ELSE s1

\* Mutant of gameLoop: no title-screen branch.
gameLoopNoTitle(s, keys, ready) ==
    IF s.gameOver THEN s
    ELSE IF s.levelTransition THEN TransitionFrame(s)
    ELSE PlayingFrame(s, keys, ready)

gameLoop(s, keys, ready) ==
    IF ~s.started THEN s
    ELSE IF s.gameOver THEN s
    ELSE IF s.levelTransition THEN TransitionFrame(s)
    ELSE PlayingFrame(s, keys, ready)

\* ------------------------------------------------------------ keyboard handlers
\* Mutant of handleKeyDown: space resets whether or not the game has started.
handleKeyDownAnyTime(s, key) ==
    LET s1 == IF key = " " THEN resetGame(s) ELSE s
    IN  IF key = "r" /\ s1.gameOver THEN resetGame(s1) ELSE s1

handleKeyDown(s, key) ==
    LET s1 == IF key = " " /\ ~s.started THEN resetGame(s) ELSE s
    IN  IF key = "r" /\ s1.gameOver THEN resetGame(s1) ELSE s1


\* ------------------------------------------------------------ bounds
\* Playing frames explored along one behaviour.
MaxPlayFrames == 3
\* Seeded sessions: highest level, highest enemy health, longest enemy pool.
SeedMaxLevel == 2
SeedMaxHealth == 2
SeedMaxEnemies == 2
\* Direct calls of resetGame / initWave: longest call sequence, highest level.
MaxCalls == 2
MaxWaveLevel == 24

\* Keys the keyboard handlers are driven with.
Keys == { "ArrowLeft", "ArrowRight", " ", "r" }
\* Milliseconds between two frame callbacks (a steady 60 Hz frame, a slow frame).
FrameMs == { 16, 160 }

\* ------------------------------------------------------------ state
VARIABLES
    gameState,       \* gameStateRef.current
    keysRef,         \* keysRef.current
    sinceLastShoot,  \* Date.now() - lastShootRef.current at the last frame, capped
    playFrames,      \* Playing frames run so far (bounds the exploration)
    calls            \* entry points called directly (CallSpec only)

vars == << gameState, keysRef, sinceLastShoot, playFrames, calls >>

\* now - lastShootRef.current is only compared with SHOOT_COOLDOWN.
ShootAgeCap == SHOOT_COOLDOWN + 1

\* ------------------------------------------------------------ seeded sessions
\* Places of seeded enemies, in pixels.  OnPlayer intersects the player's box;
\* InFire1 and InFire2 overlap each other in the line of fire just above the
\* breach line; Far is the first place of the level-1 formation.
OnPlayer == << 280, 640 >>
InFire1 == << 270, 600 >>
InFire2 == << 290, 600 >>
Far == << 240, 60 >>
SeedEnemy(slot, hp, level) ==
    [ x |-> slot[1] * SUB, y |-> slot[2] * SUB,
      width |-> ENEMY_WIDTH * SUB, height |-> ENEMY_HEIGHT * SUB,
      type |-> 0, health |-> hp, speed |-> SUB + 3 * level,
      direction |-> 1, active |-> TRUE ]

\* Pools of at most SeedMaxEnemies enemies, each at one of `slots`.
SeedPools(slots) == UNION { [ 1..n -> slots ] : n \in 1..SeedMaxEnemies }

\* A started session whose enemy pool was put in place directly.
Seeded(level, lives, hp, px, pool) ==
    [ InitialGameState EXCEPT
        !.started = TRUE,
        !.level = level,
        !.lives = lives,
        !.player.x = px * SUB,
        !.enemies = [ i \in 1..Len(pool) |-> SeedEnemy(pool[i], hp, level) ] ]

\* Sessions in which enemies have reached the player while one is far away.
CollisionSessions ==
    { Seeded(lv, lf, 1, 280, pool \o << Far >>) :
        lv \in 1..SeedMaxLevel, lf \in 1..INITIAL_LIVES,
        pool \in SeedPools({ OnPlayer }) }

\* Sessions with enemies in the line of fire and one far away.
FireSessions ==
    { Seeded(lv, INITIAL_LIVES, hp, 280, pool \o << Far >>) :
        lv \in 1..SeedMaxLevel, hp \in 1..SeedMaxHealth,
        pool \in SeedPools({ InFire1, InFire2 }) }

\* Sessions whose whole pool is on the player.
LastStandSessions ==
    { Seeded(1, lf, 1, 280, [ i \in 1..n |-> OnPlayer ]) :
        lf \in 1..INITIAL_LIVES, n \in 0..SeedMaxEnemies }

\* Sessions with the player one step from a wall.
EdgeSessions ==
    { Seeded(1, INITIAL_LIVES, 1, px, << Far >>) : px \in { 16, 544 } }

SeededSessions ==
    CollisionSessions \cup FireSessions \cup LastStandSessions \cup EdgeSessions

\* ------------------------------------------------------------ actions
\* One requestAnimationFrame callback.
GameLoop ==
    \E dt \in FrameMs :
        LET age     == Min(sinceLastShoot + dt, ShootAgeCap)
            ready   == age > SHOOT_COOLDOWN
            playing == Mode(gameState) = "Playing"
        IN  /\ playing => playFrames < MaxPlayFrames
            /\ gameState' = gameLoop(gameState, keysRef, ready)
            /\ sinceLastShoot' = IF playing /\ Fires(keysRef, ready) THEN 0 ELSE age
            /\ playFrames' = IF playing THEN playFrames + 1 ELSE playFrames
            /\ UNCHANGED << keysRef, calls >>

KeyDown ==
    \E key \in Keys :
        /\ keysRef' = keysRef \cup { key }
        /\ gameState' = handleKeyDown(gameState, key)
        /\ UNCHANGED << sinceLastShoot, playFrames, calls >>

KeyUp ==
    \E key \in Keys :
        /\ keysRef' = keysRef \ { key }
        /\ UNCHANGED << gameState, sinceLastShoot, playFrames, calls >>

Next == GameLoop \/ KeyDown \/ KeyUp

\* The mounted component.
Init ==
    /\ gameState = InitialGameState
    /\ keysRef = { }
    /\ sinceLastShoot = ShootAgeCap
    /\ playFrames = 0
    /\ calls = << >>

Spec == Init /\ [][Next]_vars

\* The component, or a seeded session.
ArenaInit ==
    /\ gameState \in { InitialGameState } \cup SeededSessions
    /\ keysRef = { }
    /\ sinceLastShoot = ShootAgeCap
    /\ playFrames = 0
    /\ calls = << >>

ArenaSpec == ArenaInit /\ [][Next]_vars


\* ------------------------------------------------------------ whole waves
\* Highest level whose wave is played to its end.
MaxMarchLevel == 2

\* Keys pressed before the first Playing frame and held from then on.
MarchKeys == { " ", "ArrowLeft", "ArrowRight" }

\* The slow frame interval: with fire held, every frame spawns a bullet.
SlowFrameMs == CHOOSE dt \in FrameMs : dt > SHOOT_COOLDOWN

\* One requestAnimationFrame callback of a session played at SlowFrameMs;
\* playFrames stops counting at MaxPlayFrames.
MarchFrame ==
    LET age     == Min(sinceLastShoot + SlowFrameMs, ShootAgeCap)
        ready   == age > SHOOT_COOLDOWN
        playing == Mode(gameState) = "Playing"
    IN  /\ gameState.level <= MaxMarchLevel
        /\ gameState' = gameLoop(gameState, keysRef, ready)
        /\ sinceLastShoot' = IF playing /\ Fires(keysRef, ready) THEN 0 ELSE age
        /\ playFrames' = IF playing THEN Min(playFrames + 1, MaxPlayFrames) ELSE playFrames
        /\ UNCHANGED << keysRef, calls >>

MarchKeyDown ==
    \E key \in MarchKeys :
        /\ playFrames = 0
        /\ keysRef' = keysRef \cup { key }
        /\ gameState' = handleKeyDown(gameState, key)
        /\ UNCHANGED << sinceLastShoot, playFrames, calls >>

MarchKeyUp ==
    \E key \in MarchKeys :
        /\ playFrames = 0
        /\ keysRef' = keysRef \ { key }
        /\ UNCHANGED << gameState, sinceLastShoot, playFrames, calls >>

MarchNext == MarchFrame \/ MarchKeyDown \/ MarchKeyUp

\* The mounted component, played with the keys chosen at the start.
MarchSpec == Init /\ [][MarchNext]_vars

\* A frame callback changes the state exactly in these modes, while the
\* levels last.
FrameDue ==
    /\ gameState.level <= MaxMarchLevel
    /\ Mode(gameState) \in { "Playing", "LevelTransition" }

\* The frame callback keeps being rescheduled (line 470): weak fairness of
\* MarchFrame, written out with FrameDue for ENABLED <<MarchFrame>>_vars.
MarchLive == MarchSpec /\ ([]<>(~FrameDue) \/ []<><<MarchFrame>>_vars)

\* ------------------------------------------------------------ frames on the clock
\* One requestAnimationFrame callback; `calls` keeps how far the clock reading
\* of this call (line 194) is from that of the call before.
ClockFrame ==
    \E dt \in FrameMs :
        LET age     == Min(sinceLastShoot + dt, ShootAgeCap)
            ready   == age > SHOOT_COOLDOWN
            playing == Mode(gameState) = "Playing"
        IN  /\ playing => playFrames < MaxPlayFrames
            /\ gameState' = gameLoop(gameState, keysRef, ready)
            /\ sinceLastShoot' = IF playing /\ Fires(keysRef, ready) THEN 0 ELSE age
            /\ playFrames' = IF playing THEN playFrames + 1 ELSE playFrames
            /\ calls' = << [ fn |-> "gameLoop", arg |-> dt, result |-> << >> ] >>
            /\ UNCHANGED keysRef

ClockNext == ClockFrame \/ KeyDown \/ KeyUp

\* The component, or a session that meets a game over or a level transition
\* within its first frames.
ClockInit ==
    /\ gameState \in { InitialGameState } \cup LastStandSessions
    /\ keysRef = { }
    /\ sinceLastShoot = ShootAgeCap
    /\ playFrames = 0
    /\ calls = << >>

ClockSpec == ClockInit /\ [][ClockNext]_vars

\* ------------------------------------------------------------ direct calls
\* States resetGame is called from: the component's first state, the seeded
\* sessions, and what one and two frames make of them.
FrameOutcomes(S) ==
    { gameLoop(s, keys, TRUE) : s \in S, keys \in { { }, { " " }, { " ", "ArrowLeft" } } }

CallStates ==
    LET s0 == { InitialGameState } \cup SeededSessions
        s1 == FrameOutcomes(s0)
    IN  s0 \cup s1 \cup FrameOutcomes(s1)

\* `calls` holds the direct calls since the last generateWave call.
CallResetGame ==
    /\ Len(calls) < MaxCalls
    /\ gameState' = resetGame(gameState)
    /\ calls' = Append(calls, [ fn |-> "resetGame", arg |-> 0, result |-> << >> ])
    /\ UNCHANGED << keysRef, sinceLastShoot, playFrames >>

CallGenerateWave ==
    \E level \in 1..MaxWaveLevel :
        /\ calls' = << [ fn |-> "generateWave", arg |-> level,
                         result |-> generateWave(level) ] >>
        /\ UNCHANGED << gameState, keysRef, sinceLastShoot, playFrames >>

CallNext == CallResetGame \/ CallGenerateWave

CallInit ==
    /\ gameState \in CallStates
    /\ keysRef = { }
    /\ sinceLastShoot = ShootAgeCap
    /\ playFrames = 0
    /\ calls = << >>

CallSpec == CallInit /\ [][CallNext]_vars

\* ------------------------------------------------------------ claims
RECURSIVE TotalHealth(_)
TotalHealth(enemies) ==
    IF enemies = << >> THEN 0 ELSE Head(enemies).health + TotalHealth(Tail(enemies))

SpentBullets(s) == Cardinality({ i \in 1..Len(s.bullets) : ~s.bullets[i].active })

\* C1: a state between frames with lives <= 0 has gameOver set, so it is
\* dispatched to the game-over branch, never to Playing or LevelTransition.
C1_NoLivesIsGameOver ==
    gameState.lives <= 0 =>
        gameState.gameOver /\ Mode(gameState) \notin { "Playing", "LevelTransition" }

\* C1 witness: a Playing frame took the last life and the game is over.
C1_Witness ==
    playFrames >= 1 /\ gameState.lives <= 0 /\ Mode(gameState) = "GameOver"

C8_PlayerInField ==
    /\ gameState.player.x >= 10 * SUB
    /\ gameState.player.x <= 550 * SUB

\* C8 witness: a frame with move-left held has clamped the player at the left
\* margin, or one with move-right held at the right margin.
C8_Witness ==
    /\ playFrames >= 1
    /\ \/ gameState.player.x = 10 * SUB /\ MoveLeftHeld(keysRef)
       \/ gameState.player.x = 550 * SUB /\ MoveRightHeld(keysRef)


\* The mode changes the specification lists.
ModeEdges ==
    { << "NotStarted", "Playing" >>, << "Playing", "LevelTransition" >>,
      << "LevelTransition", "Playing" >>, << "Playing", "GameOver" >>,
      << "GameOver", "Playing" >> }

ModeStepAllowed ==
    \/ Mode(gameState') = Mode(gameState)
    \/ << Mode(gameState), Mode(gameState') >> \in ModeEdges

FlagsNeedStarted ==
    ~gameState.started => ~gameState.gameOver /\ ~gameState.levelTransition

TimerOnGrid ==
    gameState.levelTransition =>
        gameState.transitionTimer \in { 2000 - 16 * k : k \in 0..124 }

FreshWave(level) ==
    LET w == generateWave(level) IN [ i \in 1..Len(w) |-> Activate(w[i]) ]

\* The frames of a level transition; `entered` says what entering means.
TransitionSteps(entered) ==
    /\ (GameLoop /\ Mode(gameState) = "Playing" /\ activeEnemies(gameState') = 0) =>
          entered /\ gameState'.transitionTimer = 2000
    /\ (GameLoop /\ Mode(gameState) = "LevelTransition" /\ gameState.transitionTimer > 16) =>
          gameState' = [ gameState EXCEPT !.transitionTimer = @ - 16 ]
    /\ (GameLoop /\ Mode(gameState) = "LevelTransition" /\ gameState.transitionTimer <= 16) =>
          /\ gameState'.level = gameState.level + 1
          /\ gameState'.enemies = FreshWave(gameState.level + 1)
          /\ Mode(gameState') = "Playing"

C7_ResetOnlyOnStartOrRestart ==
    [][ /\ (GameLoop /\ Mode(gameState) \in { "NotStarted", "GameOver" }) =>
              gameState' = gameState
        /\ ((KeyDown \/ KeyUp) /\ gameState' # gameState) =>
              /\ gameState' = resetGame(gameState)
              /\ \/ Mode(gameState) = "NotStarted" /\ " " \in keysRef'
                 \/ Mode(gameState) = "GameOver" /\ "r" \in keysRef'
        /\ ((KeyDown \/ KeyUp) /\ Mode(gameState) \in { "Playing", "LevelTransition" }) =>
              gameState' = gameState ]_vars

\* C7 witness: space and 'r' keydowns have arrived in a session that is in a
\* level transition with a score, and the session was not reset.
C7_Witness ==
    /\ Mode(gameState) = "LevelTransition"
    /\ { " ", "r" } \subseteq keysRef
    /\ gameState.score > 0
    /\ gameState.transitionTimer < 2000


\* The session resetGame is to leave: every field but transitionTimer and
\* player.y, which resetGame does not write.
IsFreshSession(s) ==
    /\ s.score = 0 /\ s.lives = 3 /\ s.level = 1
    /\ s.started /\ ~s.gameOver /\ ~s.levelTransition
    /\ s.bullets = << >> /\ s.explosions = << >>
    /\ s.player.x = 280 * SUB
    /\ Len(s.enemies) = 5
    /\ \A i \in 1..Len(s.enemies) :
          /\ s.enemies[i].active
          /\ s.enemies[i].x = (240 + 60 * ((i - 1) % 3)) * SUB
          /\ s.enemies[i].y = (60 + 50 * ((i - 1) \div 3)) * SUB
          /\ s.enemies[i].health = 1
          /\ s.enemies[i].direction = 1

LastCall == calls[Len(calls)]

\* C9: after a call of resetGame the session is the fresh level-1 session,
\* whatever the state it was called from, and a second call in a row changes
\* nothing.
C9_ResetIdempotent ==
    /\ []((calls # << >> /\ LastCall.fn = "resetGame") => IsFreshSession(gameState))
    /\ [][(CallResetGame /\ calls # << >> /\ LastCall.fn = "resetGame") =>
              gameState' = gameState]_vars

\* C9 witness: resetGame was called twice in a row, the first time from a
\* game that was over with bullets or explosions left in the pools.
C9_Witness ==
    /\ Len(calls) = 2
    /\ calls[1].fn = "resetGame" /\ calls[2].fn = "resetGame"
    /\ gameState.transitionTimer = 2000

\* The formation the specification gives for level L.
WaveCount(L) == 4 + ((3 * L) \div 2)
WaveRowCount(L) == IF 2 + (L \div 3) < 4 THEN 2 + (L \div 3) ELSE 4
WaveColCount(L) ==
    IF WaveCount(L) % WaveRowCount(L) = 0
    THEN WaveCount(L) \div WaveRowCount(L)
    ELSE (WaveCount(L) \div WaveRowCount(L)) + 1
WaveSize(L) ==
    IF WaveCount(L) < WaveRowCount(L) * WaveColCount(L)
    THEN WaveCount(L) ELSE WaveRowCount(L) * WaveColCount(L)

IsFormation(w, L) ==
    /\ Len(w) = WaveSize(L)
    /\ \A i \in 1..Len(w) :
          LET row == (i - 1) \div WaveColCount(L)
              col == (i - 1) % WaveColCount(L)
          IN  /\ 2 * w[i].x = (600 - 60 * (WaveColCount(L) - 1) + 120 * col) * SUB
              /\ w[i].y = (60 + 50 * row) * SUB
              /\ w[i].type = row % 3
              /\ w[i].health = 1 + (L \div 4)
              /\ w[i].direction = 1
              /\ w[i].speed * 20 = (20 + 3 * L) * SUB
              /\ w[i].width = 36 * SUB /\ w[i].height = 28 * SUB

\* C10: generateWave(L) is the formation the specification gives for L.
C10_WaveIsFormation ==
    \A i \in 1..Len(calls) :
        calls[i].fn = "generateWave" => IsFormation(calls[i].result, calls[i].arg)

\* C10 witness: generateWave was called for a level whose last row is partial
\* and whose rows are capped at 4.
C10_Witness ==
    /\ calls # << >>
    /\ calls[1].fn = "generateWave"
    /\ calls[1].arg >= 6
    /\ Len(calls[1].result) % WaveColCount(calls[1].arg) # 0


\* The x an enemy has after the horizontal move of a Playing frame.
MovedX(e) == IF e.active THEN e.x + e.speed * e.direction ELSE e.x

\* Some active enemy is at or beyond a bounce margin after the move.
ReachesEdge(enemies) ==
    \E i \in 1..Len(enemies) :
        /\ enemies[i].active
        /\ MovedX(enemies[i]) <= 10 * SUB \/ MovedX(enemies[i]) >= 554 * SUB

\* C11: in a Playing frame, if an active enemy is at x <= 10 or x >= 554 after
\* the horizontal move, every active enemy has its direction negated and its
\* y raised by exactly 20 in that frame; if none is, no direction and no y
\* changes; an inactive enemy is not moved at all.
C11_SynchronizedBounce ==
    [][ (MarchFrame /\ Mode(gameState) = "Playing") =>
          /\ Len(gameState'.enemies) = Len(gameState.enemies)
          /\ \A i \in 1..Len(gameState.enemies) :
                LET e == gameState.enemies[i]
                    f == gameState'.enemies[i]
                    edge == ReachesEdge(gameState.enemies)
                IN  /\ f.x = MovedX(e)
                    /\ (e.active /\ edge) => f.direction = -e.direction /\ f.y = e.y + 20 * SUB
                    /\ (e.active /\ ~edge) => f.direction = e.direction /\ f.y = e.y
                    /\ ~e.active => f.direction = e.direction /\ f.y = e.y ]_vars

\* C11 witness: the formation has just turned at the left edge while one of
\* its enemies was inactive.
C11_Witness ==
    /\ Mode(gameState) = "Playing"
    /\ \E i, j \in 1..Len(gameState.enemies) :
          /\ gameState.enemies[i].active
          /\ gameState.enemies[i].x <= 10 * SUB
          /\ gameState.enemies[i].direction = 1
          /\ ~gameState.enemies[j].active


\* The session as the bullet-enemy pass of the frame now being taken finds
\* it (a bullet was spawned in this frame exactly if the frame restarts the
\* cooldown).
PrePass == UpdateEnemies(UpdateBullets(HandleInput(gameState, keysRef, sinceLastShoot' = 0)))

\* Explosions of the given size spawned in the frame just taken: the frame's
\* explosion step has aged each of them once.
NewExplosions(s, size) ==
    Cardinality({ i \in 1..Len(s.explosions) :
                    s.explosions[i].maxRadius = size /\ s.explosions[i].alpha = 96 })

\* Enemies that entered the pass active with health h > 0 and left it with
\* health <= 0.
KilledByBullets(before, after) ==
    Cardinality({ j \in 1..Len(before) :
                    before[j].active /\ before[j].health > 0 /\ after[j].health <= 0 })

\* C12: in a Playing frame every bullet hit takes exactly one health point and
\* adds exactly one explosion: a large one when the enemy's health reaches 0
\* (the enemy is then inactive and the score grows by 100 * level), a small
\* one otherwise (the enemy stays active unless the player pass of the same
\* frame removes it, and the score is unchanged); a frame with a hit leaves a
\* deactivated bullet; the score changes in no other way in any frame.
C12_HitContract ==
    [][ /\ (Mode(gameState) = "Playing" /\ GameLoop) =>
              \E before \in { PrePass.enemies } :
              \E after \in { gameState'.enemies } :
              \E kills \in { KilledByBullets(before, after) } :
              \E hits \in { TotalHealth(before) - TotalHealth(after) } :
                  /\ \A j \in 1..Len(before) :
                        /\ after[j].health <= before[j].health
                        /\ after[j].health <= 0 => ~after[j].active
                        /\ (before[j].active /\ after[j].health > 0) =>
                              \/ after[j].active
                              \/ after[j].y > 600 * SUB
                              \/ checkCollision(gameState'.player, after[j])
                  /\ NewExplosions(gameState', 35) = kills
                  /\ NewExplosions(gameState', 15) = hits - kills
                  /\ gameState'.score = gameState.score + 100 * gameState.level * kills
                  /\ hits > 0 => SpentBullets(gameState') >= 1
                  /\ SpentBullets(gameState') <= hits
        /\ (Mode(gameState) # "Playing" /\ GameLoop) => gameState'.score = gameState.score
      ]_vars

\* C12 witness: at level 2 an enemy of health 2 was hit without being killed
\* in one frame and killed by the next bullet in a later frame.
C12_Witness ==
    /\ gameState.level = 2
    /\ gameState.score = 200
    /\ NewExplosions(gameState, 35) = 1
    /\ \E i \in 1..Len(gameState.explosions) :
          gameState.explosions[i].maxRadius = 15 /\ gameState.explosions[i].alpha < 96


\* The enemies of pool `enemies` that are active and intersect `player`.
Colliders(player, enemies) ==
    { j \in 1..Len(enemies) :
        /\ enemies[j].active
        /\ player.x < enemies[j].x + 36 * SUB /\ player.x + 40 * SUB > enemies[j].x
        /\ player.y < enemies[j].y + 28 * SUB /\ player.y + 30 * SUB > enemies[j].y }

FreshBullets(s) ==
    { i \in 1..Len(s.bullets) : s.bullets[i].y = (650 - 12) * SUB }

\* C14: a Playing frame spawns at most one bullet, and only with fire held and
\* the clock more than 150 ms past the last spawn; a frame that spawns nothing
\* lets the time since the last spawn run on, and so do key events, resets and
\* the frames of NotStarted, LevelTransition and GameOver, which spawn
\* nothing: two successive spawns are more than 150 ms apart.
C14_FireCooldown ==
    [][ /\ ClockFrame =>
              \E dt \in { calls'[1].arg } :
              \E elapsed \in { IF sinceLastShoot + dt < 151 THEN sinceLastShoot + dt ELSE 151 } :
                  IF Mode(gameState) = "Playing"
                  THEN /\ Cardinality(FreshBullets(gameState')) <= 1
                       /\ Len(gameState'.bullets) <= Len(gameState.bullets) + 1
                       /\ FreshBullets(gameState') # { } =>
                             " " \in keysRef /\ elapsed > 150 /\ sinceLastShoot' = 0
                       /\ FreshBullets(gameState') = { } => sinceLastShoot' = elapsed
                  ELSE /\ gameState'.bullets = gameState.bullets
                       /\ sinceLastShoot' = elapsed
        /\ (KeyDown \/ KeyUp) =>
              /\ sinceLastShoot' = sinceLastShoot
              /\ gameState'.bullets \in { gameState.bullets, << >> }
      ]_vars

\* C14 witness: after a level transition and 16 ms frames, a bullet was spawned
\* while another one is still in the pool.
C14_Witness ==
    /\ Mode(gameState) = "Playing"
    /\ gameState.level = 2
    /\ sinceLastShoot = 0
    /\ calls # << >> /\ calls[1].arg = 16
    /\ Len(gameState.bullets) >= 2
    /\ FreshBullets(gameState) # { }


\* The active enemies of pool `enemies` below the breach line (y > 600).
PastBreachLine(enemies) ==
    { j \in 1..Len(enemies) : enemies[j].active /\ enemies[j].y > 600 * SUB }

\* C15: a Playing frame deactivates every enemy that its player-enemy pass
\* finds active with y > 600; the pass (`pre` is the session as it finds it)
\* takes one life and adds one large explosion per enemy on the player and
\* nothing for an enemy that is only past the line, and it leaves the score
\* alone; after the frame no active enemy has y > 600.
C15_BreachRemoves ==
    [][ (Mode(gameState) = "Playing" /\ MarchFrame) =>
          \E mid \in { PrePass } :
          \E pre \in { BulletEnemyCollision(mid) } :
          \E hit \in { Colliders(pre.player, pre.enemies) } :
              /\ \A j \in PastBreachLine(pre.enemies) : ~gameState'.enemies[j].active
              /\ \A j \in 1..Len(pre.enemies) :
                    (pre.enemies[j].active /\ j \notin hit /\ j \notin PastBreachLine(pre.enemies))
                        => gameState'.enemies[j].active
              /\ gameState'.lives = gameState.lives - Cardinality(hit)
              /\ NewExplosions(gameState', 50) = Cardinality(hit)
              /\ gameState'.score = pre.score
              /\ PastBreachLine(gameState'.enemies) = { } ]_vars

\* C15 witness: an enemy was removed at the breach line with its health left,
\* no life was lost, no explosion is in the pool and the wave goes on.
C15_Witness ==
    /\ Mode(gameState) = "Playing"
    /\ activeEnemies(gameState) >= 1
    /\ gameState.lives = 3
    /\ gameState.explosions = << >>
    /\ \E j \in 1..Len(gameState.enemies) :
          /\ ~gameState.enemies[j].active
          /\ gameState.enemies[j].health > 0
          /\ gameState.enemies[j].y > 600 * SUB


\* Playing frames since the spawn of a bullet, the frame of the spawn counted:
\* it is spawned at y = 650 and moved by 12 in every Playing frame.
BulletAge(b) == (650 * SUB - b.y) \div (12 * SUB)

\* C16: the bullet pool is bounded.  Every bullet that a frame's bullet-enemy
\* pass finds in the pool is active; a Playing frame keeps of the old bullets
\* only active ones, each moved up by 12, and adds at most one; frames of the
\* other modes leave the pool alone; so every bullet of the pool has gone
\* through at most 55 Playing frames (it is gone after its 56th) and the pool
\* holds at most 55 bullets.
C16_BulletPoolBounded ==
    /\ [](/\ Len(gameState.bullets) <= 55
          /\ \A i \in 1..Len(gameState.bullets) :
                /\ BulletAge(gameState.bullets[i]) \in 1..55
                /\ gameState.bullets[i].y = (650 - 12 * BulletAge(gameState.bullets[i])) * SUB
                /\ \A k \in 1..Len(gameState.bullets) :
                      k # i => gameState.bullets[k].y # gameState.bullets[i].y)
    /\ [][ /\ (Mode(gameState) = "Playing" /\ MarchFrame) =>
                 \E mid \in { PrePass } :
                     /\ \A i \in 1..Len(mid.bullets) : mid.bullets[i].active
                     /\ \A i \in 1..Len(gameState'.bullets) :
                           \/ i \in FreshBullets(gameState')
                           \/ \E k \in 1..Len(gameState.bullets) :
                                 /\ gameState.bullets[k].active
                                 /\ gameState.bullets[k].x = gameState'.bullets[i].x
                                 /\ gameState.bullets[k].y - 12 * SUB = gameState'.bullets[i].y
                     /\ Cardinality(FreshBullets(gameState')) <= 1
           /\ (Mode(gameState) # "Playing" /\ MarchFrame) =>
                 gameState'.bullets = gameState.bullets ]_vars

\* C16 witness: the pool holds 55 bullets, the oldest in its 55th frame.
C16_Witness ==
    /\ Len(gameState.bullets) = 55
    /\ BulletAge(gameState.bullets[1]) = 55


\* C17: in a session played from the component's first state, whose waves
\* all come from generateWave, the player-enemy pass of a frame (`pre` is the
\* session as it finds it) finds no active enemy on the player: no active
\* enemy is lower than y = 620 then, and touching the player takes y > 622.
\* So lives stays 3 and gameOver is never set.
C17_EnemiesNeverReachPlayer ==
    /\ [](gameState.lives = 3 /\ ~gameState.gameOver)
    /\ [][ (Mode(gameState) = "Playing" /\ MarchFrame) =>
              \E mid \in { PrePass } :
              \E pre \in { BulletEnemyCollision(mid) } :
                  /\ Colliders(pre.player, pre.enemies) = { }
                  /\ \A j \in 1..Len(pre.enemies) :
                        pre.enemies[j].active => pre.enemies[j].y <= 620 * SUB ]_vars

\* C17 witness: an enemy came down to y = 620 right above the player and was
\* removed there, with all three lives left.
C17_Witness ==
    /\ gameState.lives = 3
    /\ \E j \in 1..Len(gameState.enemies) :
          /\ ~gameState.enemies[j].active
          /\ gameState.enemies[j].health > 0
          /\ gameState.enemies[j].y = 620 * SUB
          /\ gameState.player.x < gameState.enemies[j].x + 36 * SUB
          /\ gameState.player.x + 40 * SUB > gameState.enemies[j].x


Abs(n) == IF n < 0 THEN -n ELSE n

C19_WaveAlwaysEnds ==
    \A L \in 1..MaxMarchLevel :
        /\ (Mode(gameState) = "Playing" /\ gameState.level = L)
              ~> (Mode(gameState) = "LevelTransition" /\ gameState.level = L)
        /\ (Mode(gameState) = "LevelTransition" /\ gameState.level = L)
              ~> (Mode(gameState) = "Playing" /\ gameState.level = L + 1)

\* C19 witness: the second wave is in play and the player has never fired.
C19_Witness ==
    /\ Mode(gameState) = "Playing"
    /\ gameState.level >= 2
    /\ gameState.score = 0
    /\ sinceLastShoot > 150
    /\ keysRef = { }


\* C20: every enemy of generateWave(L) starts strictly inside the bounce
\* margins, 10 < x < 554, for every level L >= 1 (so that a fresh wave does
\* not bounce before it has moved).
C20_WaveInsideMargins ==
    \A i \in 1..Len(calls) :
        calls[i].fn = "generateWave" =>
            \A k \in 1..Len(calls[i].result) :
                /\ calls[i].result[k].x > 10 * SUB
                /\ calls[i].result[k].x < 554 * SUB

=============================================================================
